---- MODULE Spec2Model ----
(***************************************************************************)
(* Model of the notes API of src/index.js: an express application over one *)
(* sqlite3 connection.  A request handler runs synchronously up to the     *)
(* point where it hands a statement to the connection; the statement       *)
(* executes later, atomically, and its completion callback sends the       *)
(* response.                                                               *)
(***************************************************************************)
EXTENDS Integers, Sequences, FiniteSets, TLC

VARIABLES
    users,   \* rows of table users
    notes,   \* rows of table notes
    now,     \* the latest reading of the millisecond clock
    queue,   \* statements handed to the connection and not yet executed
    sent,    \* responses sent so far, oldest first
    served   \* requests the server has accepted so far

vars == <<users, notes, now, queue, sent, served>>

----------------------------------------------------------------------------
(* Bounds *)

MaxTime == 2       \* the clock is read over 1..MaxTime
MaxRequests == 2   \* requests accepted in one run of the server

----------------------------------------------------------------------------
(* Values *)

\* parseInt's result on a string with no leading digits
NaN == -1
\* SQL NULL in an integer or datetime column
NULL == -2
\* a TEXT value that INTEGER affinity cannot convert; it equals no integer
TEXT == -3
\* JSON null in a text field of a request body
JsNull == "<null>"

\* Strings that are parsed are sequences of one-character strings.
Digits == {"0", "1", "2", "3", "4", "5", "6", "7", "8", "9"}

DigitValue(c) ==
    CASE c = "0" -> 0 [] c = "1" -> 1 [] c = "2" -> 2 [] c = "3" -> 3
      [] c = "4" -> 4 [] c = "5" -> 5 [] c = "6" -> 6 [] c = "7" -> 7
      [] c = "8" -> 8 [] c = "9" -> 9

\* value of the longest prefix of digits of s, read from position i on
RECURSIVE DigitPrefix(_, _, _)
DigitPrefix(s, i, acc) ==
    IF i > Len(s) \/ s[i] \notin Digits THEN acc
    ELSE DigitPrefix(s, i + 1, acc * 10 + DigitValue(s[i]))

\* parseInt(userId, 10): the leading digits, NaN when there are none
parseInt(s) ==
    IF s = <<>> \/ s[1] \notin Digits THEN NaN ELSE DigitPrefix(s, 1, 0)

\* a TEXT parameter compared with an INTEGER column: converted when the whole
\* text is an integer literal, left as text otherwise
IntegerAffinity(s) ==
    IF s # <<>> /\ \A i \in 1..Len(s) : s[i] \in Digits
    THEN DigitPrefix(s, 1, 0) ELSE TEXT

\* binding a JS number: NaN is bound as NULL
BindNumber(v) == IF v = NaN THEN NULL ELSE v

\* binding a JS boolean: stored as 1 / 0
BindBoolean(b) == IF b THEN 1 ELSE 0

\* the SQL comparison a = b: never true when either side is NULL
SqlEq(a, b) == a # NULL /\ b # NULL /\ a # TEXT /\ b # TEXT /\ a = b

Max(S) == CHOOSE m \in S : \A x \in S : x <= m

\* the rowid sqlite assigns to an INTEGER PRIMARY KEY left unset
NextRowid(rows) == IF rows = {} THEN 1 ELSE Max({r.id : r \in rows}) + 1

RemoveAt(q, i) == SubSeq(q, 1, i - 1) \o SubSeq(q, i + 1, Len(q))

----------------------------------------------------------------------------
(* Requests *)

\* a JSON object's optional field: absent, or present with a value of V
Field(k, V) == {<<>>} \cup {k :> v : v \in V}

XUserIds == {<<"1">>, <<"2">>, <<"a">>}
Headers == Field("x-user-id", XUserIds)

Usernames == {"alice", "bob"}
UserIdParams == {<<"1">>, <<"x">>}
NoteIdParams == {<<"1">>}

Request(route, headers, params, body) ==
    [route |-> route, headers |-> headers, params |-> params, body |-> body]

\* a response, with the request it answers
Response(req, status, body) == [req |-> req, status |-> status, body |-> body]

Has(obj, k) == k \in DOMAIN obj

\* !x for a text field of the body: undefined, null and "" are falsy
Falsy(obj, k) == ~Has(obj, k) \/ obj[k] \in {"", JsNull}

----------------------------------------------------------------------------
(* Transport *)

\* a request arrives
Accept ==
    /\ served < MaxRequests
    /\ served' = served + 1

\* what Date.now() / new Date() may read: the clock does not run backwards,
\* and two readings may fall in the same millisecond (instants are ordinal)
Clock == {t \in {now, now + 1} : t <= MaxTime}

\* db.run / db.get / db.all: hand a statement to the connection
Submit(stmt) ==
    /\ queue' = Append(queue, stmt)
    /\ sent' = sent

\* res.status(..).json(..) from the handler itself
Reply(req, status, body) ==
    /\ sent' = Append(sent, Response(req, status, body))
    /\ queue' = queue

\* mutant: the callback does not return after it has answered and answers
\* again further down
Complete_SendsTwice(i, status, body) ==
    /\ queue' = RemoveAt(queue, i)
    /\ sent' = Append(Append(sent, Response(queue[i].req, status, body)),
                      Response(queue[i].req, status, body))

\* res.status(..).json(..) from the completion callback of statement i
Complete(i, status, body) ==
    /\ queue' = RemoveAt(queue, i)
    /\ sent' = Append(sent, Response(queue[i].req, status, body))

\* the header check of userFromHeader: !userId
NoUserId(req) ==
    ~Has(req.headers, "x-user-id") \/ req.headers["x-user-id"] = <<>>

\* req.userId as userFromHeader sets it
userFromHeader(req) == parseInt(req.headers["x-user-id"])

UserIdRequired == [error |-> "User ID header is required."]

\* JSON.stringify of a number: NaN is written as null
JsonNumber(v) == IF v = NaN THEN NULL ELSE v

\* the row db.get yields: the first match, undefined when there is none
Undefined == [undefined |-> TRUE]
FirstRow(rows) ==
    IF rows = {} THEN Undefined
    ELSE CHOOSE r \in rows : \A x \in rows : r.id <= x.id

----------------------------------------------------------------------------
(* User Directory *)

\* mutant: the UNIQUE constraint on username is not enforced
UsernameTaken_Never(username) == FALSE

\* username TEXT UNIQUE
UsernameTaken(username) == \E u \in users : u.username = username

\* mutant: the lookup binds a value no username equals
UsersByUsername_Misses(username) == {}

\* SELECT * FROM users WHERE username = ?
UsersByUsername(username) == {u \in users : u.username = username}

UsersById(id) == {u \in users : SqlEq(u.id, IntegerAffinity(id))}

\* app.post('/users'), up to db.run
PostUsers ==
    \E body \in Field("username", Usernames \cup {""}) :
        LET req == Request("POST /users", <<>>, <<>>, body) IN
        /\ Accept
        /\ IF Falsy(body, "username")
           THEN Reply(req, 400, [error |-> "Username is required."])
           ELSE Submit([sql |-> "INSERT INTO users", req |-> req])
        /\ UNCHANGED <<users, notes, now>>

\* the INSERT of app.post('/users') and its callback
RunInsertUser(i) ==
    LET stmt == queue[i]
        username == stmt.req.body.username
        lastID == NextRowid(users)
    IN  /\ stmt.sql = "INSERT INTO users"
        /\ IF UsernameTaken(username)
           THEN \* UNIQUE constraint failed: the callback looks the user up
                /\ queue' = Append(RemoveAt(queue, i),
                       [sql |-> "SELECT users BY username", req |-> stmt.req])
                /\ sent' = sent
                /\ users' = users
           ELSE /\ users' = users \cup
                       {[id |-> lastID, username |-> username, password |-> NULL]}
                /\ Complete(i, 201, [id |-> lastID, username |-> username])
        /\ UNCHANGED <<notes, now, served>>

\* the SELECT on the collision path of app.post('/users') and its callback
RunSelectUserByUsername(i) ==
    LET stmt == queue[i] IN
    /\ stmt.sql = "SELECT users BY username"
    /\ Complete(i, 200, FirstRow(UsersByUsername(stmt.req.body.username)))
    /\ UNCHANGED <<users, notes, now, served>>

\* app.get('/users/:id'), up to db.get
GetUser ==
    \E id \in UserIdParams :
        LET req == Request("GET /users/:id", <<>>, [id |-> id], <<>>) IN
        /\ Accept
        /\ Submit([sql |-> "SELECT users BY id", req |-> req])
        /\ UNCHANGED <<users, notes, now>>

\* the SELECT of app.get('/users/:id') and its callback
RunSelectUserById(i) ==
    LET stmt == queue[i]
        rows == UsersById(stmt.req.params.id)
    IN  /\ stmt.sql = "SELECT users BY id"
        /\ IF rows # {}
           THEN Complete(i, 200, [status |-> "ok", user |-> FirstRow(rows)])
           ELSE Complete(i, 404, [status |-> "not found"])
        /\ UNCHANGED <<users, notes, now, served>>

----------------------------------------------------------------------------
(* Note Store *)

\* DATETIME values are represented by the clock instant they denote.

\* bodies of POST /notes: the required fields alone, every field given, and
\* bodies that fail validation
NoteBodies ==
    { [title |-> "T", content |-> "C"],
      [id |-> 1, title |-> "T", content |-> "C", is_hidden |-> TRUE,
       createdAt |-> 0, user_id |-> 2],
      [content |-> "C"],
      [title |-> "T", content |-> ""] }

\* bodies of PATCH /notes/:id
Patches ==
    { <<>>,
      [title |-> "U"],
      [content |-> "D", is_hidden |-> TRUE],
      [title |-> JsNull] }

\* mutant: the PRIMARY KEY constraint on id is not enforced
NoteIdTaken_Never(id) == FALSE

\* id INTEGER PRIMARY KEY
NoteIdTaken(id) == \E n \in notes : n.id = id

\* mutant: the connection runs with PRAGMA foreign_keys = ON
ForeignKeyFails_Enforced(row) ==
    row.user_id # NULL /\ ~\E u \in users : u.id = row.user_id

\* FOREIGN KEY (user_id) REFERENCES users (id): declared, and not enforced,
\* since nothing turns foreign keys on for the connection
ForeignKeyFails(row) == FALSE

\* mutant: the list query does not filter on deleted_at
VisibleNotes_WithDeleted(userId) ==
    {n \in notes : SqlEq(n.user_id, BindNumber(userId))}

\* WHERE user_id = ? AND deleted_at IS NULL
VisibleNotes(userId) ==
    {n \in notes : SqlEq(n.user_id, BindNumber(userId)) /\ n.deleted_at = NULL}

\* mutant: the update is not scoped to the caller
UpdateMatches_AnyOwner(id, userId) ==
    {n \in notes : SqlEq(n.id, IntegerAffinity(id)) /\ n.deleted_at = NULL}

\* mutant: the update does not exclude soft-deleted rows
UpdateMatches_WithDeleted(id, userId) ==
    {n \in notes : /\ SqlEq(n.id, IntegerAffinity(id))
                   /\ SqlEq(n.user_id, BindNumber(userId))}

\* WHERE id = ? AND user_id = ? AND deleted_at IS NULL
UpdateMatches(id, userId) ==
    {n \in notes : /\ SqlEq(n.id, IntegerAffinity(id))
                   /\ SqlEq(n.user_id, BindNumber(userId))
                   /\ n.deleted_at = NULL}

\* mutant: the delete skips rows that are already soft-deleted
DeleteMatches_LiveOnly(id, userId) ==
    {n \in notes : /\ SqlEq(n.id, IntegerAffinity(id))
                   /\ SqlEq(n.user_id, BindNumber(userId))
                   /\ n.deleted_at = NULL}

\* mutant: the delete is not scoped to the caller
DeleteMatches_AnyOwner(id, userId) ==
    {n \in notes : SqlEq(n.id, IntegerAffinity(id))}

\* WHERE id = ? AND user_id = ?
DeleteMatches(id, userId) ==
    {n \in notes : /\ SqlEq(n.id, IntegerAffinity(id))
                   /\ SqlEq(n.user_id, BindNumber(userId))}

\* mutant: user_id is taken from the request body when it carries one
NoteFields_FromBody(stmt) ==
    LET body == stmt.req.body IN
    [id |-> IF Has(body, "id") THEN body.id ELSE stmt.idNow,
     title |-> body.title,
     content |-> body.content,
     created_at |-> IF Has(body, "createdAt") THEN body.createdAt ELSE stmt.at,
     updated_at |-> IF Has(body, "createdAt") THEN body.createdAt ELSE stmt.at,
     is_hidden |-> IF Has(body, "is_hidden") THEN body.is_hidden ELSE FALSE,
     user_id |-> IF Has(body, "user_id") THEN body.user_id
                 ELSE userFromHeader(stmt.req)]

\* the destructuring of req.body in app.post('/notes'), defaults applied
NoteFields(stmt) ==
    LET body == stmt.req.body
        createdAt == IF Has(body, "createdAt") THEN body.createdAt ELSE stmt.at
    IN  [id |-> IF Has(body, "id") THEN body.id ELSE stmt.idNow,
         title |-> body.title,
         content |-> body.content,
         created_at |-> createdAt,
         updated_at |-> createdAt,
         is_hidden |-> IF Has(body, "is_hidden") THEN body.is_hidden ELSE FALSE,
         user_id |-> userFromHeader(stmt.req)]

\* the row INSERT INTO notes writes from those parameters
NoteRow(stmt) ==
    LET p == NoteFields(stmt) IN
    [id |-> p.id, title |-> p.title, content |-> p.content,
     created_at |-> p.created_at, updated_at |-> p.updated_at,
     deleted_at |-> NULL, is_hidden |-> BindBoolean(p.is_hidden),
     user_id |-> BindNumber(p.user_id)]

\* mutant: is_hidden is destructured with the default of create, so that a
\* patch without it resets the flag
UpdatedRow_HiddenDefaultsFalse(n, stmt) ==
    LET body == stmt.req.body IN
    [n EXCEPT
        !.title = IF Has(body, "title") THEN body.title ELSE @,
        !.content = IF Has(body, "content") THEN body.content ELSE @,
        !.is_hidden = IF Has(body, "is_hidden") THEN BindBoolean(body.is_hidden) ELSE 0,
        !.updated_at = stmt.at]

\* mutant: the SET list also rewrites created_at, as the INSERT's pair of
\* timestamps does
UpdatedRow_ResetsCreatedAt(n, stmt) ==
    LET body == stmt.req.body IN
    [n EXCEPT
        !.title = IF Has(body, "title") THEN body.title ELSE @,
        !.content = IF Has(body, "content") THEN body.content ELSE @,
        !.is_hidden = IF Has(body, "is_hidden") THEN BindBoolean(body.is_hidden) ELSE @,
        !.created_at = stmt.at,
        !.updated_at = stmt.at]

\* the SET list app.patch('/notes/:id') builds, applied to row n
UpdatedRow(n, stmt) ==
    LET body == stmt.req.body IN
    [n EXCEPT
        !.title = IF Has(body, "title") THEN body.title ELSE @,
        !.content = IF Has(body, "content") THEN body.content ELSE @,
        !.is_hidden = IF Has(body, "is_hidden") THEN BindBoolean(body.is_hidden) ELSE @,
        !.updated_at = stmt.at]

\* mutant: the columns are declared without NOT NULL
NotNullFails_Never(row) == FALSE

\* title TEXT NOT NULL, content TEXT NOT NULL
NotNullFails(row) == row.title = JsNull \/ row.content = JsNull

\* mutant: deleting a soft-deleted note restores it
DeletedRow_Toggles(n, stmt) ==
    [n EXCEPT !.deleted_at = IF @ = NULL THEN stmt.at ELSE NULL]

\* SET deleted_at = ?
DeletedRow(n, stmt) == [n EXCEPT !.deleted_at = stmt.at]

\* mutant: the statement is DELETE FROM notes, the rows are erased
DeletedRows_Erased(matched, stmt) == {}

\* UPDATE notes SET deleted_at = ?: the matched rows as the statement leaves
\* them
DeletedRows(matched, stmt) == {DeletedRow(n, stmt) : n \in matched}

\* app.get('/notes'), up to db.all
GetNotes ==
    \E headers \in Headers :
        LET req == Request("GET /notes", headers, <<>>, <<>>) IN
        /\ Accept
        /\ IF NoUserId(req)
           THEN Reply(req, 400, UserIdRequired)
           ELSE Submit([sql |-> "SELECT notes", req |-> req])
        /\ UNCHANGED <<users, notes, now>>

\* the SELECT of app.get('/notes') and its callback
RunSelectNotes(i) ==
    LET stmt == queue[i] IN
    /\ stmt.sql = "SELECT notes"
    /\ Complete(i, 200, VisibleNotes(userFromHeader(stmt.req)))
    /\ UNCHANGED <<users, notes, now, served>>

\* app.post('/notes'), up to db.run; idNow is what Date.now() reads for the
\* default id and at what new Date() reads for the default createdAt, each
\* read only when the body leaves the field out and the header check passed
PostNotes ==
    \E headers \in Headers, body \in NoteBodies, idNow \in Clock, at \in Clock :
        LET req == Request("POST /notes", headers, <<>>, body) IN
        /\ Accept
        /\ idNow <= at
        /\ (NoUserId(req) \/ Has(body, "id")) => idNow = now
        /\ (NoUserId(req) \/ Has(body, "createdAt")) => at = idNow
        /\ now' = at
        /\ IF NoUserId(req)
           THEN Reply(req, 400, UserIdRequired)
           ELSE IF Falsy(body, "title") \/ Falsy(body, "content")
           THEN Reply(req, 400, [error |-> "Title and content are required."])
           ELSE Submit([sql |-> "INSERT INTO notes", req |-> req,
                        idNow |-> idNow, at |-> at])
        /\ UNCHANGED <<users, notes>>

\* the INSERT of app.post('/notes') and its callback
RunInsertNote(i) ==
    LET stmt == queue[i]
        p == NoteFields(stmt)
        row == NoteRow(stmt)
    IN  /\ stmt.sql = "INSERT INTO notes"
        /\ IF NoteIdTaken(row.id)
           THEN /\ Complete(i, 500, [error |-> "UNIQUE constraint failed: notes.id"])
                /\ notes' = notes
           ELSE IF ForeignKeyFails(row)
           THEN /\ Complete(i, 500, [error |-> "FOREIGN KEY constraint failed"])
                /\ notes' = notes
           ELSE /\ notes' = notes \cup {row}
                /\ Complete(i, 201,
                       [id |-> row.id, title |-> p.title, content |-> p.content,
                        created_at |-> p.created_at, updated_at |-> p.updated_at,
                        is_hidden |-> p.is_hidden, user_id |-> JsonNumber(p.user_id)])
        /\ UNCHANGED <<users, now, served>>

\* mutant: the presence check of the patch is missing
EmptyPatch_Never(body) == FALSE

\* title === undefined && content === undefined && is_hidden === undefined
EmptyPatch(body) ==
    ~Has(body, "title") /\ ~Has(body, "content") /\ ~Has(body, "is_hidden")

\* mutant: a zero-row update tells a missing note from one that exists
UpdateNotFound_TellsExisting(stmt) ==
    IF \E n \in notes : SqlEq(n.id, IntegerAffinity(stmt.req.params.id))
    THEN Response(stmt.req, 403, [error |-> "You do not have permission to edit this note."])
    ELSE Response(stmt.req, 404, [error |-> "Note not found."])

\* the response of app.patch('/notes/:id') when this.changes === 0
UpdateNotFound(stmt) ==
    Response(stmt.req, 404,
        [error |-> "Note not found or you do not have permission to edit it."])

\* app.patch('/notes/:id'), up to db.run; the clock is read once the header
\* check has passed
PatchNote ==
    \E headers \in Headers, id \in NoteIdParams, body \in Patches, at \in Clock :
        LET req == Request("PATCH /notes/:id", headers, [id |-> id], body) IN
        /\ Accept
        /\ NoUserId(req) => at = now
        /\ now' = at
        /\ IF NoUserId(req)
           THEN Reply(req, 400, UserIdRequired)
           ELSE IF EmptyPatch(body)
           THEN Reply(req, 400,
                    [error |-> "At least one field (title, content, is_hidden) must be provided."])
           ELSE Submit([sql |-> "UPDATE notes SET fields", req |-> req, at |-> at])
        /\ UNCHANGED <<users, notes>>

\* the UPDATE of app.patch('/notes/:id') and its callback
RunUpdateNote(i) ==
    LET stmt == queue[i]
        matched == UpdateMatches(stmt.req.params.id, userFromHeader(stmt.req))
        updated == {UpdatedRow(n, stmt) : n \in matched}
    IN  /\ stmt.sql = "UPDATE notes SET fields"
        /\ IF \E row \in updated : NotNullFails(row)
           THEN /\ Complete(i, 500, [error |-> "NOT NULL constraint failed"])
                /\ notes' = notes
           ELSE /\ notes' = (notes \ matched) \cup updated
                /\ IF Cardinality(matched) = 0
                   THEN /\ queue' = RemoveAt(queue, i)
                        /\ sent' = Append(sent, UpdateNotFound(stmt))
                   ELSE Complete(i, 200, [message |-> "Note updated successfully."])
        /\ UNCHANGED <<users, now, served>>

\* app.delete('/notes/:id'), up to db.run; the clock is read once the header
\* check has passed
DeleteNote ==
    \E headers \in Headers, id \in NoteIdParams, at \in Clock :
        LET req == Request("DELETE /notes/:id", headers, [id |-> id], <<>>) IN
        /\ Accept
        /\ NoUserId(req) => at = now
        /\ now' = at
        /\ IF NoUserId(req)
           THEN Reply(req, 400, UserIdRequired)
           ELSE Submit([sql |-> "UPDATE notes SET deleted_at", req |-> req, at |-> at])
        /\ UNCHANGED <<users, notes>>

\* the UPDATE of app.delete('/notes/:id') and its callback
RunDeleteNote(i) ==
    LET stmt == queue[i]
        matched == DeleteMatches(stmt.req.params.id, userFromHeader(stmt.req))
    IN  /\ stmt.sql = "UPDATE notes SET deleted_at"
        /\ notes' = (notes \ matched) \cup DeletedRows(matched, stmt)
        /\ IF Cardinality(matched) = 0
           THEN Complete(i, 404,
                  [error |-> "Note not found or you do not have permission to delete it."])
           ELSE Complete(i, 200, [message |-> "Note deleted successfully."])
        /\ UNCHANGED <<users, now, served>>

----------------------------------------------------------------------------
(* The server *)

\* a note that an earlier run of the server left in ./notes.db
StoredNote ==
    NoteRow([sql |-> "INSERT INTO notes",
             req |-> Request("POST /notes", "x-user-id" :> <<"1">>, <<>>,
                             [id |-> 1, title |-> "T", content |-> "C"]),
             idNow |-> 0, at |-> 0])

\* that note after its owner soft-deleted it in an earlier run
StoredDeletedNote ==
    DeletedRow(StoredNote,
        [sql |-> "UPDATE notes SET deleted_at",
         req |-> Request("DELETE /notes/:id", "x-user-id" :> <<"1">>,
                         [id |-> <<"1">>], <<>>),
         at |-> 0])

\* the database file is opened and CREATE TABLE IF NOT EXISTS keeps what it
\* holds: the tables are empty or hold a row of earlier runs, live or
\* soft-deleted
Init ==
    /\ users = {}
    /\ notes \in {{}, {StoredNote}, {StoredDeletedNote}}
    /\ now = 1
    /\ queue = <<>>
    /\ sent = <<>>
    /\ served = 0

Next ==
    \/ PostUsers
    \/ GetUser
    \/ GetNotes
    \/ PostNotes
    \/ PatchNote
    \/ DeleteNote
    \/ \E i \in 1..Len(queue) : RunInsertUser(i)
    \/ \E i \in 1..Len(queue) : RunSelectUserByUsername(i)
    \/ \E i \in 1..Len(queue) : RunSelectUserById(i)
    \/ \E i \in 1..Len(queue) : RunSelectNotes(i)
    \/ \E i \in 1..Len(queue) : RunInsertNote(i)
    \/ \E i \in 1..Len(queue) : RunUpdateNote(i)
    \/ \E i \in 1..Len(queue) : RunDeleteNote(i)

Spec == Init /\ [][Next]_vars

\* the connection executes a statement in flight
Execute ==
    \E i \in 1..Len(queue) :
        \/ RunInsertUser(i)
        \/ RunSelectUserByUsername(i)
        \/ RunSelectUserById(i)
        \/ RunSelectNotes(i)
        \/ RunInsertNote(i)
        \/ RunUpdateNote(i)
        \/ RunDeleteNote(i)

\* the connection does not leave statements in flight for ever
FairSpec == Spec /\ WF_vars(Execute)

----------------------------------------------------------------------------
(* Vocabulary of the properties *)

Last(q) == q[Len(q)]

\* this step executed statement i and its callback sent a response
Ran(i) ==
    /\ i \in 1..Len(queue)
    /\ queue' = RemoveAt(queue, i)
    /\ Len(sent') = Len(sent) + 1
    /\ SubSeq(sent', 1, Len(sent)) = sent
    /\ Last(sent').req = queue[i].req

\* this step executed statement i of the given kind
RanSql(i, sql) == Ran(i) /\ queue[i].sql = sql

\* the caller identity and the note id a statement was built with
Caller(stmt) == userFromHeader(stmt.req)
Target(stmt) == IntegerAffinity(stmt.req.params.id)

\* note n was created by caller U: create stores the bound caller identity
Owns(U, n) == n.user_id = BindNumber(U)

Live(n) == n.deleted_at = NULL

NoteWithId(rows, id) == {n \in rows : n.id = id}

\* the response at position k answers a request on this route
Answers(k, route) == k \in 1..Len(sent) /\ sent[k].req.route = route

----------------------------------------------------------------------------
(* C1: list_visible *)

\* C1 as stated: every list_visible(U) returns, with success, exactly the live
\* notes created under U, whatever U the caller presented.
C1_ListReturnsLiveCreatedUnderAnyCaller ==
    [][\A i \in 1..Len(queue) :
        RanSql(i, "SELECT notes") =>
            /\ Last(sent').status = 200
            /\ Last(sent').body =
                  {n \in notes : Owns(Caller(queue[i]), n) /\ Live(n)}]_vars

\* C1, amended: for a caller identity U that parses to a number, list_visible(U)
\* returns with success exactly the stored notes created under U whose deleted_at
\* is null (the empty set when there are none); for an identity that parses to
\* NaN it returns the empty set, although notes created under it are stored.
C1_ListReturnsLiveNotesOfNumericCaller ==
    [][\A i \in 1..Len(queue) :
        RanSql(i, "SELECT notes") =>
            /\ Last(sent').status = 200
            /\ Last(sent').body =
                  IF Caller(queue[i]) = NaN THEN {}
                  ELSE {n \in notes : Owns(Caller(queue[i]), n) /\ Live(n)}]_vars

\* a list sent last left out a stored, soft-deleted note of its numeric caller
C1_Witness ==
    /\ Answers(Len(sent), "GET /notes")
    /\ Last(sent).status = 200
    /\ userFromHeader(Last(sent).req) # NaN
    /\ \E n \in notes :
          /\ Owns(userFromHeader(Last(sent).req), n)
          /\ ~Live(n)
          /\ n \notin Last(sent).body

----------------------------------------------------------------------------
(* C2: update by another user *)

\* C2: an update with a non-empty patch of a stored note whose user_id differs
\* from the caller's is answered not-found/forbidden and changes no note.
C2_UpdateByOtherUserRejected ==
    [][\A i \in 1..Len(queue) :
        ( /\ RanSql(i, "UPDATE notes SET fields")
          /\ \E n \in NoteWithId(notes, Target(queue[i])) :
                ~Owns(Caller(queue[i]), n) ) =>
            /\ Last(sent').status = 404
            /\ notes' = notes]_vars

\* an update of a live note of another user was answered 404
C2_Witness ==
    /\ Answers(Len(sent), "PATCH /notes/:id")
    /\ Last(sent).status = 404
    /\ DOMAIN Last(sent).req.body # {}
    /\ \E n \in NoteWithId(notes, IntegerAffinity(Last(sent).req.params.id)) :
          /\ Live(n)
          /\ n.user_id # NULL
          /\ ~Owns(userFromHeader(Last(sent).req), n)

----------------------------------------------------------------------------
(* C3: Deleted is terminal with respect to update *)

\* C3: an update executed when its note is already soft-deleted is answered
\* not-found/forbidden and changes no note, whoever the caller; an update is
\* answered with success only if, at the step its write took effect, the note
\* was live and owned by the caller.
C3_DeletedRejectsUpdate ==
    [][\A i \in 1..Len(queue) :
        RanSql(i, "UPDATE notes SET fields") =>
            /\ (\E n \in NoteWithId(notes, Target(queue[i])) : ~Live(n)) =>
                  (Last(sent').status = 404 /\ notes' = notes)
            /\ Last(sent').status = 200 =>
                  \E n \in NoteWithId(notes, Target(queue[i])) :
                      Live(n) /\ Owns(Caller(queue[i]), n)]_vars

\* the owner's soft_delete succeeded and a later update of that note by the
\* owner was answered 404
C3_Witness ==
    \E k, j \in 1..Len(sent) :
        /\ k < j
        /\ Answers(k, "DELETE /notes/:id") /\ sent[k].status = 200
        /\ Answers(j, "PATCH /notes/:id") /\ sent[j].status = 404
        /\ sent[j].req.params = sent[k].req.params
        /\ sent[j].req.headers = sent[k].req.headers

----------------------------------------------------------------------------
(* C4: soft_delete is idempotent-success *)

\* C4: a soft_delete by the owner of a note that is already soft-deleted is
\* answered with success, sets deleted_at to the time of that call, and leaves
\* the owner's visible set as it was, the note not in it.
C4_RepeatedSoftDelete ==
    [][\A i \in 1..Len(queue) :
        RanSql(i, "UPDATE notes SET deleted_at") =>
            \A n \in NoteWithId(notes, Target(queue[i])) :
                (Owns(Caller(queue[i]), n) /\ ~Live(n)) =>
                    /\ Last(sent').status = 200
                    /\ NoteWithId(notes', n.id) =
                          {[n EXCEPT !.deleted_at = queue[i].at]}
                    /\ {m \in notes' : Owns(Caller(queue[i]), m) /\ Live(m)} =
                          {m \in notes : Owns(Caller(queue[i]), m) /\ Live(m)}
                    /\ \A m \in NoteWithId(notes', n.id) : ~Live(m)]_vars

\* two soft_deletes of one note by its owner both succeeded, the second at a
\* later time, and the note carries the second time
C4_Witness ==
    \E k, j \in 1..Len(sent) :
        /\ k < j
        /\ Answers(k, "DELETE /notes/:id") /\ sent[k].status = 200
        /\ Answers(j, "DELETE /notes/:id") /\ sent[j].status = 200
        /\ sent[j].req = sent[k].req
        /\ \E n \in NoteWithId(notes, IntegerAffinity(sent[j].req.params.id)) :
              n.deleted_at = now /\ n.created_at < now

----------------------------------------------------------------------------
(* C5: register_or_fetch *)

\* the answers to the registrations of username u, oldest first
Registrations(u) ==
    SelectSeq(sent, LAMBDA r : /\ r.req.route = "POST /users"
                               /\ r.status # 400
                               /\ r.req.body.username = u)

\* C5: the registrations of one non-empty username are all answered with the
\* same user id, the first with 'created' and every later one with 'already
\* exists'; that id is the id of the one User row of that username, and no two
\* User rows share a username.
C5_RegisterOrFetchSameUser ==
    /\ \A u1, u2 \in users : u1.username = u2.username => u1 = u2
    /\ \A name \in Usernames :
          LET R == Registrations(name) IN
          \A k \in 1..Len(R) :
              /\ R[k].status = IF k = 1 THEN 201 ELSE 200
              /\ R[k].body.id = R[1].body.id
              /\ R[k].body.username = name
              /\ \E u \in users : u.username = name /\ u.id = R[k].body.id

\* one username was registered twice and the second answer was 'already exists'
C5_Witness ==
    \E name \in Usernames :
        /\ Len(Registrations(name)) >= 2
        /\ Registrations(name)[2].status = 200

----------------------------------------------------------------------------
(* C6: note ids are unique across users *)

\* C6: a create with an explicit id equal to the id of a stored note is
\* answered with an infrastructure error and leaves both tables unchanged; no
\* two stored notes ever share an id.
C6_DuplicateIdRejected ==
    [][ /\ \A i \in 1..Len(queue) :
            ( /\ RanSql(i, "INSERT INTO notes")
              /\ Has(queue[i].req.body, "id")
              /\ NoteWithId(notes, queue[i].req.body.id) # {} ) =>
                /\ Last(sent').status = 500
                /\ notes' = notes
                /\ users' = users
        /\ \A n1, n2 \in notes' : n1.id = n2.id => n1 = n2 ]_vars

\* a create with the explicit id of another user's note was answered 500
C6_Witness ==
    /\ Answers(Len(sent), "POST /notes")
    /\ Last(sent).status = 500
    /\ Has(Last(sent).req.body, "id")
    /\ \E n \in NoteWithId(notes, Last(sent).req.body.id) :
          /\ n.user_id # NULL
          /\ ~Owns(userFromHeader(Last(sent).req), n)

----------------------------------------------------------------------------
(* C7: validation precedes storage *)

MissingOrEmpty(obj, k) == ~Has(obj, k) \/ obj[k] = "" \/ obj[k] = JsNull

\* the request fails the validation the specification states for its route
Invalid(req) ==
    CASE req.route = "POST /users" -> MissingOrEmpty(req.body, "username")
      [] req.route = "GET /users/:id" -> FALSE
      [] req.route = "GET /notes" -> ~Has(req.headers, "x-user-id")
      [] req.route = "POST /notes" ->
            \/ ~Has(req.headers, "x-user-id")
            \/ MissingOrEmpty(req.body, "title")
            \/ MissingOrEmpty(req.body, "content")
      [] req.route = "PATCH /notes/:id" ->
            \/ ~Has(req.headers, "x-user-id")
            \/ DOMAIN req.body \cap {"title", "content", "is_hidden"} = {}
      [] req.route = "DELETE /notes/:id" -> ~Has(req.headers, "x-user-id")

\* C7: the handler of an invalid request answers it with a client error and
\* hands no statement to the connection; the handler of a valid request hands
\* over one statement and answers nothing yet; neither changes a row.
C7_ValidationBeforeStorage ==
    [][ served' = served + 1 =>
          /\ users' = users
          /\ notes' = notes
          /\ \/ /\ Len(sent') = Len(sent) + 1
                /\ SubSeq(sent', 1, Len(sent)) = sent
                /\ Invalid(Last(sent').req)
                /\ Last(sent').status = 400
                /\ queue' = queue
             \/ /\ Len(queue') = Len(queue) + 1
                /\ SubSeq(queue', 1, Len(queue)) = queue
                /\ ~Invalid(Last(queue').req)
                /\ sent' = sent ]_vars

\* an update with an empty patch by an identified caller was answered 400
\* while a note was stored
C7_Witness ==
    /\ Answers(Len(sent), "PATCH /notes/:id")
    /\ Last(sent).status = 400
    /\ Has(Last(sent).req.headers, "x-user-id")
    /\ DOMAIN Last(sent).req.body = {}
    /\ notes # {}

----------------------------------------------------------------------------
(* C8: soft_delete of a note that is not the caller's *)

\* C8: a soft_delete is answered not-found/forbidden exactly when no stored
\* note has its id and the caller as user_id, and then changes no note; it
\* never changes a note whose user_id is not the caller.
C8_SoftDeleteScopedToOwner ==
    [][\A i \in 1..Len(queue) :
        RanSql(i, "UPDATE notes SET deleted_at") =>
            LET mine == {n \in NoteWithId(notes, Target(queue[i])) :
                            n.user_id = Caller(queue[i])}
            IN  /\ Last(sent').status = 404 <=> mine = {}
                /\ Last(sent').status \in {200, 404}
                /\ mine = {} => notes' = notes
                /\ \A n \in notes : n.user_id # Caller(queue[i]) => n \in notes']_vars

\* a soft_delete of another user's live note was answered 404
C8_Witness ==
    /\ Answers(Len(sent), "DELETE /notes/:id")
    /\ Last(sent).status = 404
    /\ \E n \in NoteWithId(notes, IntegerAffinity(Last(sent).req.params.id)) :
          /\ Live(n)
          /\ n.user_id # NULL
          /\ n.user_id # userFromHeader(Last(sent).req)

----------------------------------------------------------------------------
(* C9: the zero-match answers of update cannot be told apart *)

\* C9: an update that matches no row is answered with one fixed status and
\* body, whether no note has the id, the note is another user's, or the note is
\* the caller's and soft-deleted.
C9_UpdateZeroMatchIndistinguishable ==
    [][\A i \in 1..Len(queue) :
        ( /\ RanSql(i, "UPDATE notes SET fields")
          /\ \/ NoteWithId(notes, Target(queue[i])) = {}
             \/ \E n \in NoteWithId(notes, Target(queue[i])) :
                    ~Owns(Caller(queue[i]), n)
             \/ \E n \in NoteWithId(notes, Target(queue[i])) :
                    Owns(Caller(queue[i]), n) /\ ~Live(n) ) =>
            /\ Last(sent').status = 404
            /\ Last(sent').body =
                  [error |-> "Note not found or you do not have permission to edit it."]]_vars

\* the owner of a soft-deleted note and another user sent the same patch for
\* it and got the same answer
C9_Witness ==
    \E j, k \in 1..Len(sent) :
        /\ Answers(j, "PATCH /notes/:id") /\ sent[j].status = 404
        /\ Answers(k, "PATCH /notes/:id") /\ sent[k].status = 404
        /\ sent[j].req.params = sent[k].req.params
        /\ sent[j].req.body = sent[k].req.body
        /\ \E n \in NoteWithId(notes, IntegerAffinity(sent[k].req.params.id)) :
              /\ ~Live(n)
              /\ Owns(userFromHeader(sent[j].req), n)
              /\ userFromHeader(sent[k].req) # NaN
              /\ ~Owns(userFromHeader(sent[k].req), n)
        /\ sent[j].body = sent[k].body

----------------------------------------------------------------------------
(* C10: create *)

\* C10: a create answered with success inserted exactly one row: its user_id
\* is the caller's identity as bound (not the body's user_id), its deleted_at
\* is null, its created_at is the body's createdAt or else the time of the
\* call, its updated_at equals its created_at, its is_hidden is false when the
\* body gives none; the answer carries the stored values.
C10_CreateStoresResolvedNote ==
    [][\A i \in 1..Len(queue) :
        (RanSql(i, "INSERT INTO notes") /\ Last(sent').status = 201) =>
            LET body == queue[i].req.body
                res == Last(sent').body
            IN  \E row \in notes' \ notes :
                  /\ notes' = notes \cup {row}
                  /\ row.user_id = BindNumber(Caller(queue[i]))
                  /\ row.deleted_at = NULL
                  /\ row.created_at =
                        IF Has(body, "createdAt") THEN body.createdAt ELSE queue[i].at
                  /\ row.updated_at = row.created_at
                  /\ row.title = body.title /\ row.content = body.content
                  /\ ~Has(body, "is_hidden") => row.is_hidden = 0
                  /\ Has(body, "is_hidden") => row.is_hidden = BindBoolean(body.is_hidden)
                  /\ res.id = row.id /\ res.title = row.title
                  /\ res.content = row.content
                  /\ res.created_at = row.created_at
                  /\ res.updated_at = row.updated_at
                  /\ BindBoolean(res.is_hidden) = row.is_hidden
                  /\ res.user_id = row.user_id]_vars

\* a create whose body names another user was stored under the caller, at a
\* time later than its createdAt
C10_Witness ==
    /\ Answers(Len(sent), "POST /notes")
    /\ Last(sent).status = 201
    /\ Has(Last(sent).req.body, "user_id")
    /\ \E n \in NoteWithId(notes, Last(sent).body.id) :
          /\ n.user_id = userFromHeader(Last(sent).req)
          /\ n.user_id # Last(sent).req.body.user_id
          /\ n.created_at = Last(sent).req.body.createdAt
          /\ n.updated_at = n.created_at

----------------------------------------------------------------------------
(* C11: the frame of update *)

\* C11: an update answered with success changed exactly one note, the caller's
\* live note of that id: the fields the patch carries take the patch's values,
\* updated_at takes the time of the call, every other field of the note and
\* every other note keep their values.
C11_UpdateChangesOnlyPatchedFields ==
    [][\A i \in 1..Len(queue) :
        (RanSql(i, "UPDATE notes SET fields") /\ Last(sent').status = 200) =>
            LET body == queue[i].req.body IN
            \E n \in NoteWithId(notes, Target(queue[i])) :
                notes' = (notes \ {n}) \cup
                    {[id |-> n.id,
                      title |-> IF Has(body, "title") THEN body.title ELSE n.title,
                      content |-> IF Has(body, "content") THEN body.content
                                  ELSE n.content,
                      is_hidden |-> IF Has(body, "is_hidden")
                                    THEN BindBoolean(body.is_hidden) ELSE n.is_hidden,
                      created_at |-> n.created_at,
                      updated_at |-> queue[i].at,
                      deleted_at |-> n.deleted_at,
                      user_id |-> n.user_id]}]_vars

\* a patch of the title alone succeeded on a hidden note: the note has the new
\* title, is still hidden, and its updated_at moved past its created_at
C11_Witness ==
    /\ Answers(Len(sent), "PATCH /notes/:id")
    /\ Last(sent).status = 200
    /\ DOMAIN Last(sent).req.body = {"title"}
    /\ \E n \in NoteWithId(notes, IntegerAffinity(Last(sent).req.params.id)) :
          /\ n.title = Last(sent).req.body.title
          /\ n.content = "C"
          /\ n.is_hidden = 1
          /\ n.updated_at = now
          /\ n.created_at < n.updated_at

----------------------------------------------------------------------------
(* C12: deleted_at *)

\* C12 as stated: once a note's deleted_at is not null, no step changes it.
C12_DeletedAtSetOnce ==
    [][\A n \in notes : \A m \in NoteWithId(notes', n.id) :
          n.deleted_at # NULL => m.deleted_at = n.deleted_at]_vars

\* C12, amended: a note's deleted_at is changed only by a soft_delete of that
\* note by its owner that is answered with success, which sets it to the time
\* of that call, also when it was set before; it is never set back to null.
C12_DeletedAtSetOnlyBySoftDelete ==
    [][\A n \in notes : \A m \in NoteWithId(notes', n.id) :
          m.deleted_at # n.deleted_at =>
              /\ m.deleted_at # NULL
              /\ \E i \in 1..Len(queue) :
                    /\ RanSql(i, "UPDATE notes SET deleted_at")
                    /\ Target(queue[i]) = n.id
                    /\ Owns(Caller(queue[i]), n)
                    /\ Last(sent').status = 200
                    /\ m.deleted_at = queue[i].at]_vars

\* the note an earlier run left soft-deleted carries the time of a soft_delete
\* of this run
C12_Witness ==
    /\ Answers(Len(sent), "DELETE /notes/:id")
    /\ Last(sent).status = 200
    /\ StoredDeletedNote.deleted_at < now
    /\ [StoredDeletedNote EXCEPT !.deleted_at = now] \in notes

----------------------------------------------------------------------------
(* C13: updated_at *)

\* C13: a step that executes an update or a soft_delete, is answered with
\* success and changes a note leaves that note with updated_at equal to the
\* time of that call.
C13_UpdatedAtOnEveryMutation ==
    [][\A i \in 1..Len(queue) :
        ( /\ \/ RanSql(i, "UPDATE notes SET fields")
             \/ RanSql(i, "UPDATE notes SET deleted_at")
          /\ Last(sent').status = 200 ) =>
            \A n \in notes \ notes' :
                \A m \in NoteWithId(notes', n.id) : m.updated_at = queue[i].at]_vars

----------------------------------------------------------------------------
(* C14: order of execution *)

\* C14: the statements handed to the connection execute one at a time in the
\* order in which they were handed over: every step that executes a statement
\* executes the oldest one in flight, so that of two statements in flight the
\* one submitted first takes effect first.
C14_ExecutesInSubmissionOrder ==
    [][(served' = served /\ queue' # queue) =>
          /\ queue # <<>>
          /\ Len(queue') >= Len(queue) - 1
          /\ SubSeq(queue', 1, Len(queue) - 1) = Tail(queue)]_vars

----------------------------------------------------------------------------
(* C15: ownership and creation time *)

\* C15: no step changes the user_id or the created_at of a stored note: the
\* note of that id is still stored after the step, with the user_id and the
\* created_at it had before, which by induction are those its create wrote.
C15_OwnerAndCreationTimeImmutable ==
    [][\A n \in notes :
          /\ NoteWithId(notes', n.id) # {}
          /\ \A m \in NoteWithId(notes', n.id) :
                m.user_id = n.user_id /\ m.created_at = n.created_at]_vars

\* the stored note was updated and then soft-deleted by its owner, both with
\* success, and still has the owner and creation time it was stored with
C15_Witness ==
    \E k, j \in 1..Len(sent) :
        /\ k < j
        /\ Answers(k, "PATCH /notes/:id") /\ sent[k].status = 200
        /\ Answers(j, "DELETE /notes/:id") /\ sent[j].status = 200
        /\ \E n \in NoteWithId(notes, StoredNote.id) :
              /\ n.user_id = StoredNote.user_id
              /\ n.created_at = StoredNote.created_at
              /\ n.updated_at > n.created_at
              /\ ~Live(n)

----------------------------------------------------------------------------
(* C16: the lifecycle is monotone *)

\* C16: no step removes a stored note or sets a non-null deleted_at back to
\* null, and a list answers only with notes that are stored and live when it
\* executes: a soft-deleted note is never live again and is in no later list.
C16_LifecycleMonotone ==
    [][ /\ \A n \in notes :
              /\ NoteWithId(notes', n.id) # {}
              /\ ~Live(n) => \A m \in NoteWithId(notes', n.id) : ~Live(m)
        /\ \A i \in 1..Len(queue) :
              RanSql(i, "SELECT notes") =>
                  \A r \in Last(sent').body : r \in notes /\ Live(r) ]_vars

\* a note was soft-deleted by its owner, a later list of the owner was empty,
\* and the row is still stored, soft-deleted
C16_Witness ==
    \E k, j \in 1..Len(sent) :
        /\ k < j
        /\ Answers(k, "DELETE /notes/:id") /\ sent[k].status = 200
        /\ Answers(j, "GET /notes") /\ sent[j].status = 200
        /\ sent[j].req.headers = sent[k].req.headers
        /\ sent[j].body = {}
        /\ \E n \in NoteWithId(notes, IntegerAffinity(sent[k].req.params.id)) :
              Owns(userFromHeader(sent[k].req), n) /\ ~Live(n)

----------------------------------------------------------------------------
(* C17: title and content are never null *)

NullPatch(body) ==
    \/ (Has(body, "title") /\ body.title = JsNull)
    \/ (Has(body, "content") /\ body.content = JsNull)

\* C17: every stored note has a non-null title and a non-null content, in the
\* initial state and after every step; an update whose patch gives null for
\* title or content changes no note, and when a live note has its id and the
\* caller as user_id it is answered with an infrastructure error.
C17_TitleAndContentNeverNull ==
    /\ \A n \in notes : n.title # JsNull /\ n.content # JsNull
    /\ [][ /\ \A n \in notes' : n.title # JsNull /\ n.content # JsNull
           /\ \A i \in 1..Len(queue) :
                 (RanSql(i, "UPDATE notes SET fields") /\ NullPatch(queue[i].req.body)) =>
                     /\ notes' = notes
                     /\ (\E n \in NoteWithId(notes, Target(queue[i])) :
                             Live(n) /\ n.user_id = Caller(queue[i])) =>
                           Last(sent').status = 500 ]_vars

\* the owner's patch of a live note with a null title was answered 500 and the
\* note kept its title
C17_Witness ==
    /\ Answers(Len(sent), "PATCH /notes/:id")
    /\ Last(sent).status = 500
    /\ NullPatch(Last(sent).req.body)
    /\ \E n \in NoteWithId(notes, IntegerAffinity(Last(sent).req.params.id)) :
          /\ Live(n)
          /\ Owns(userFromHeader(Last(sent).req), n)
          /\ n.title = "T"
          /\ n.updated_at = n.created_at

----------------------------------------------------------------------------
(* C18: the caller is not checked against the User Directory *)

\* no User row has this id
NoUser(U) == \A u \in users : u.id # U

\* the id a create statement inserts
InsertedId(stmt) ==
    IF Has(stmt.req.body, "id") THEN stmt.req.body.id ELSE stmt.idNow

\* what C18 says of the statement executed by this step, for the callers in S
\* that match no User row: a create with an unused id succeeds and stores a
\* note; a list holds every live note created under the caller; an update
\* with non-null values of a live note created under the caller succeeds; a
\* soft_delete of a note created under the caller succeeds.
ServedWithoutUser(i, S) ==
    LET stmt == queue[i]
        res == Last(sent')
    IN  /\ ( /\ RanSql(i, "INSERT INTO notes")
             /\ Caller(stmt) \in S /\ NoUser(Caller(stmt))
             /\ NoteWithId(notes, InsertedId(stmt)) = {} ) =>
                /\ res.status = 201
                /\ \E row \in notes' \ notes :
                      row.id = InsertedId(stmt) /\ Owns(Caller(stmt), row)
        /\ ( /\ RanSql(i, "SELECT notes")
             /\ Caller(stmt) \in S /\ NoUser(Caller(stmt)) ) =>
                /\ res.status = 200
                /\ \A n \in notes :
                      (Owns(Caller(stmt), n) /\ Live(n)) => n \in res.body
        /\ ( /\ RanSql(i, "UPDATE notes SET fields")
             /\ Caller(stmt) \in S /\ NoUser(Caller(stmt))
             /\ ~NullPatch(stmt.req.body)
             /\ \E n \in NoteWithId(notes, Target(stmt)) :
                    Owns(Caller(stmt), n) /\ Live(n) ) =>
                res.status = 200
        /\ ( /\ RanSql(i, "UPDATE notes SET deleted_at")
             /\ Caller(stmt) \in S /\ NoUser(Caller(stmt))
             /\ \E n \in NoteWithId(notes, Target(stmt)) :
                    Owns(Caller(stmt), n) ) =>
                res.status = 200

\* the caller identities the requests carry, as userFromHeader resolves them
CallerIds == {parseInt(h) : h \in XUserIds}

\* C18 as stated: for every caller id that matches no User row.
C18_AnyCallerServedWithoutUser ==
    [][\A i \in 1..Len(queue) : ServedWithoutUser(i, CallerIds)]_vars

\* C18, amended: for every caller id that parses to a number and matches no
\* User row.
C18_NumericCallerServedWithoutUser ==
    [][\A i \in 1..Len(queue) : ServedWithoutUser(i, CallerIds \ {NaN})]_vars

\* with no User row stored, a caller created a note and then found it in its
\* list
C18_Witness ==
    /\ users = {}
    /\ Len(sent) = 2
    /\ Answers(1, "POST /notes") /\ sent[1].status = 201
    /\ Answers(2, "GET /notes") /\ sent[2].status = 200
    /\ sent[2].req.headers = sent[1].req.headers
    /\ \E n \in sent[2].body :
          n.id = sent[1].body.id /\ n.user_id = userFromHeader(sent[1].req)

----------------------------------------------------------------------------
(* C19: concurrent registrations of one username *)

\* the statements in flight for registrations of username u
PendingRegistrations(u) ==
    SelectSeq(queue, LAMBDA q : /\ q.req.route = "POST /users"
                                /\ q.req.body.username = u)

\* C19: whatever the order in which the inserts and lookups of the
\* registrations of one username execute, as soon as one of them is answered
\* exactly one has been answered 'created'; every other answer is 'already
\* exists' and carries the stored row of that username, whose id is the one
\* 'created' carried; a lookup is in flight only while that row is stored, so
\* it finds it; none is answered with an error.
C19_ConcurrentRegistrations ==
    \A name \in Usernames :
        LET R == Registrations(name)
            P == PendingRegistrations(name)
            created == {k \in 1..Len(R) : R[k].status = 201}
        IN  /\ Cardinality(created) = IF R = <<>> THEN 0 ELSE 1
            /\ Cardinality({u \in users : u.username = name}) = Cardinality(created)
            /\ \A k \in 1..Len(R) : k \notin created =>
                  /\ R[k].status = 200
                  /\ R[k].body \in users
                  /\ R[k].body.username = name
                  /\ \E j \in created : R[j].body.id = R[k].body.id
            /\ \A i \in 1..Len(P) :
                  P[i].sql = "SELECT users BY username" =>
                      \E u \in users : u.username = name

\* one registration of a username was answered 'created' while the insert of
\* another had collided with its row and the lookup was still in flight
C19_Witness ==
    \E name \in Usernames :
        /\ Len(Registrations(name)) = 1
        /\ Registrations(name)[1].status = 201
        /\ Len(PendingRegistrations(name)) = 1
        /\ PendingRegistrations(name)[1].sql = "SELECT users BY username"

----------------------------------------------------------------------------
(* C20: one response for every request *)

\* every request accepted so far has either its one response or one
\* statement in flight
Accounted == served = Len(sent) + Len(queue)

\* C20: every accepted request is answered exactly once: at every moment each
\* accepted request has either been answered or has one statement in flight,
\* never both and never two of either; the handler of a request answers it or
\* hands over one statement; the execution of a statement answers its request
\* or, on the collision path of register_or_fetch, replaces the statement by
\* the lookup; a response once sent stays as it is; and every statement in
\* flight is executed in the end, so that every request is answered.
C20_ExactlyOneResponse ==
    /\ Accounted
    /\ [][ /\ Accounted'
           /\ Len(sent') \in {Len(sent), Len(sent) + 1}
           /\ SubSeq(sent', 1, Len(sent)) = sent
           /\ served' \in {served, served + 1}
           /\ (served' = served /\ Len(sent') = Len(sent)) =>
                 \E i \in 1..Len(queue) :
                     /\ queue[i].sql = "INSERT INTO users"
                     /\ Last(queue').sql = "SELECT users BY username"
                     /\ Last(queue').req = queue[i].req ]_vars
    /\ \A k \in 1..MaxRequests : (served >= k) ~> (Len(sent) >= k)

\* every request of the run has been answered, one with a validation error
\* by its handler and one with a storage error by the callback of its statement
C20_Witness ==
    /\ served = Len(sent)
    /\ queue = <<>>
    /\ \E k, j \in 1..Len(sent) : sent[k].status = 400 /\ sent[j].status = 500

====
